---- MODULE Spec2Model ----
(***************************************************************************)
(* Model of the normalization core of src/app.py: the emptiness            *)
(* classifier, the scalar normalizers, the field decoder, the answer       *)
(* builder, the canonical mapper, the pruner and the /normalize handler.   *)
(*                                                                         *)
(* Python values are tagged records.  A string is a sequence of one-       *)
(* character strings, so that strip(), lower(), re.sub() and float() are   *)
(* computed character by character.  Dictionary keys of the bundle (field  *)
(* keys, "_meta") are strings of one opaque symbol, the identifier: the    *)
(* code only tests them for truthiness and equality.                       *)
(***************************************************************************)
EXTENDS Integers, Sequences, FiniteSets, TLC

VARIABLES raw, pc, fields, idx, answers, canonical, response,
          fn, arg, out, out2, field, decoded

vars == <<raw, pc, fields, idx, answers, canonical, response,
          fn, arg, out, out2, field, decoded>>

(***************************** Python values *******************************)

VNone == [t |-> "none"]
VStr(s) == [t |-> "str", s |-> s]
VInt(n) == [t |-> "int", n |-> n]
VList(l) == [t |-> "list", l |-> l]
VDict(d) == [t |-> "dict", d |-> d]

\* An exception propagating out of a call (AttributeError, TypeError).
Raised == [t |-> "raised"]

\* A variable that has not been assigned yet.
Unset == [t |-> "unset"]

EmptyDict == VDict([k \in {} |-> VNone])

\* dict.get(k): the entry, or None when the key is absent.
Get(v, k) == IF k \in DOMAIN v.d THEN v.d[k] ELSE VNone

\* bool(v), as used by `x or default` and `not key`.
Truthy(v) ==
    CASE v.t = "none" -> FALSE
      [] v.t = "str" -> Len(v.s) > 0
      [] v.t = "int" -> v.n # 0
      [] v.t = "list" -> Len(v.l) > 0
      [] v.t = "dict" -> DOMAIN v.d # {}

\* Whether v can be a dict key: lists and dicts are unhashable.
Hashable(v) == v.t \in {"none", "str", "int"}

(******************************* Characters ********************************)

Digits == {"0", "1", "2", "3", "4", "5", "6", "7", "8", "9"}

Whitespace == {" "}

UpperSeq == <<"A", "B", "C", "D", "E", "F", "G", "H", "I", "J", "K", "L", "M",
              "N", "O", "P", "Q", "R", "S", "T", "U", "V", "W", "X", "Y", "Z">>

LowerSeq == <<"a", "b", "c", "d", "e", "f", "g", "h", "i", "j", "k", "l", "m",
              "n", "o", "p", "q", "r", "s", "t", "u", "v", "w", "x", "y", "z">>

LowerChar(c) ==
    IF \E i \in DOMAIN UpperSeq : UpperSeq[i] = c
    THEN LowerSeq[CHOOSE i \in DOMAIN UpperSeq : UpperSeq[i] = c]
    ELSE c

\* str.lower()
Lower(s) == [i \in DOMAIN s |-> LowerChar(s[i])]

RECURSIVE LStrip(_)
LStrip(s) ==
    IF s # <<>> /\ Head(s) \in Whitespace THEN LStrip(Tail(s)) ELSE s

RECURSIVE RStrip(_)
RStrip(s) ==
    IF s # <<>> /\ s[Len(s)] \in Whitespace
    THEN RStrip(SubSeq(s, 1, Len(s) - 1))
    ELSE s

\* str.strip()
Strip(s) == RStrip(LStrip(s))

\* re.sub(<class of the characters outside keep>, "", s)
RECURSIVE KeepChars(_, _)
KeepChars(s, keep) ==
    IF s = <<>> THEN <<>>
    ELSE (IF Head(s) \in keep THEN <<Head(s)>> ELSE <<>>)
         \o KeepChars(Tail(s), keep)

\* str.startswith(p)
StartsWith(s, p) == Len(s) >= Len(p) /\ SubSeq(s, 1, Len(p)) = p

\* str.replace(a, b) for single characters
ReplaceChar(s, a, b) == [i \in DOMAIN s |-> IF s[i] = a THEN b ELSE s[i]]

DigitVal(c) == CHOOSE n \in 0..9 : <<"0", "1", "2", "3", "4", "5", "6", "7", "8", "9">>[n + 1] = c

DigitChar(n) == <<"0", "1", "2", "3", "4", "5", "6", "7", "8", "9">>[n + 1]

\* The value of a sequence of decimal digits.
RECURSIVE DigitsVal(_)
DigitsVal(s) ==
    IF s = <<>> THEN 0
    ELSE DigitsVal(SubSeq(s, 1, Len(s) - 1)) * 10 + DigitVal(s[Len(s)])

\* The decimal digits of a natural number.
RECURSIVE NatStr(_)
NatStr(n) ==
    IF n < 10 THEN <<DigitChar(n)>>
    ELSE NatStr(n \div 10) \o <<DigitChar(n % 10)>>

\* repr() of a string of the model's alphabet (no quote, no backslash).
ReprStr(s) == <<"'">> \o s \o <<"'">>

\* str(v).  A list prints its elements' repr() between brackets; of the
\* dicts only the empty one is printed.
RECURSIVE PyStr(_)
RECURSIVE PyRepr(_)
RECURSIVE JoinRepr(_)
PyStr(v) ==
    CASE v.t = "str" -> v.s
      [] v.t = "none" -> <<"N", "o", "n", "e">>
      [] v.t = "int" -> IF v.n < 0 THEN <<"-">> \o NatStr(0 - v.n) ELSE NatStr(v.n)
      [] v.t = "list" -> <<"[">> \o JoinRepr(v.l) \o <<"]">>
      [] v.t = "dict" /\ DOMAIN v.d = {} -> <<"{", "}">>
PyRepr(v) == IF v.t = "str" THEN ReprStr(v.s) ELSE PyStr(v)
JoinRepr(l) ==
    IF l = <<>> THEN <<>>
    ELSE IF Len(l) = 1 THEN PyRepr(l[1])
    ELSE PyRepr(l[1]) \o <<",", " ">> \o JoinRepr(Tail(l))

(************************** Emptiness classifier ***************************)

EMPTY_STRINGS ==
    { <<>>, <<" ">>, <<"n", "u", "l", "l">>, <<"n", "o", "n", "e">>,
      <<"n", "/", "a">>, <<"n", "a">>,
      <<"u", "n", "d", "e", "f", "i", "n", "e", "d">> }

is_empty(v) ==
    CASE v.t = "none" -> TRUE
      [] v.t = "str" -> Lower(Strip(v.s)) \in EMPTY_STRINGS
      [] v.t = "list" -> Len(v.l) = 0
      [] v.t = "dict" -> DOMAIN v.d = {}
      [] OTHER -> FALSE

(**************************** Scalar normalizers ***************************)

\* The digit count of a national number (line 31).
NationalDigits == 10

\* norm_phone without the rewrite of a leading "00" (lines 28-29 left out).
norm_phone_NoIntl(phone) ==
    IF is_empty(phone) THEN VNone
    ELSE LET s == KeepChars(Strip(PyStr(phone)), Digits \cup {"+"})
             digits == KeepChars(s, Digits)
         IN IF StartsWith(s, <<"0">>) /\ Len(digits) = NationalDigits
            THEN VStr(<<"+", "3", "3">> \o Tail(digits))
            ELSE VStr(s)

norm_phone(phone) ==
    IF is_empty(phone) THEN VNone
    ELSE LET s0 == KeepChars(Strip(PyStr(phone)), Digits \cup {"+"})
             s == IF StartsWith(s0, <<"0", "0">>)
                  THEN <<"+">> \o SubSeq(s0, 3, Len(s0))
                  ELSE s0
             digits == KeepChars(s, Digits)
         IN IF StartsWith(s, <<"0">>) /\ Len(digits) = NationalDigits
            THEN VStr(<<"+", "3", "3">> \o Tail(digits))
            ELSE VStr(s)

norm_email(email) ==
    IF is_empty(email) THEN VNone
    ELSE LET s == Lower(Strip(PyStr(email)))
         IN IF \E i \in DOMAIN s : s[i] = "@" THEN VStr(s) ELSE VNone

\* float(s) followed by int(): the truncated value of a decimal literal
\* (optional sign, digits with an optional point, surrounding whitespace),
\* or Raised for any other text (ValueError, or OverflowError for "inf" and
\* ValueError for "nan" in int()).  Exponents and digit-group underscores
\* are outside the alphabet the model draws its strings from.
IntOfFloat(s) ==
    LET body == Strip(s)
        signed == body # <<>> /\ Head(body) \in {"+", "-"}
        num == IF signed THEN Tail(body) ELSE body
        points == {i \in DOMAIN num : num[i] = "."}
        p == IF points = {} THEN Len(num) + 1 ELSE CHOOSE i \in points : TRUE
        whole == SubSeq(num, 1, p - 1)
        frac == SubSeq(num, p + 1, Len(num))
        ok == /\ Cardinality(points) <= 1
              /\ \A i \in DOMAIN whole : whole[i] \in Digits
              /\ \A i \in DOMAIN frac : frac[i] \in Digits
              /\ Len(whole) + Len(frac) > 0
        mag == DigitsVal(whole)
    IN IF ~ok THEN Raised
       ELSE VInt(IF signed /\ Head(body) = "-" THEN 0 - mag ELSE mag)

as_int(v) ==
    IF is_empty(v) THEN VNone
    ELSE LET r == IntOfFloat(ReplaceChar(PyStr(v), ",", "."))
         IN IF r = Raised THEN VNone ELSE r

(****************************** Field decoder ******************************)

\* The loop of option_id_to_text over a list of options, from position i.
RECURSIVE ScanOptions(_, _, _)
ScanOptions(opts, option_id, i) ==
    IF i > Len(opts) THEN VNone
    ELSE IF opts[i].t # "dict" THEN Raised
    ELSE IF Get(opts[i], "id") = option_id THEN Get(opts[i], "text")
    ELSE ScanOptions(opts, option_id, i + 1)

\* `field.get("options") or []` is iterated: a truthy value that is no list
\* is either not iterable (int) or yields strings (str, dict keys), on which
\* opt.get raises.
option_id_to_text(f, option_id) ==
    LET opts == Get(f, "options")
    IN IF ~Truthy(opts) THEN VNone
       ELSE IF opts.t # "list" THEN Raised
       ELSE ScanOptions(opts.l, option_id, 1)

\* ResolveOption without the fallback to the identifier.
ResolveOption_NoFallback(f, oid) == option_id_to_text(f, oid)

\* One identifier resolved: the option's text, or the identifier itself.
ResolveOption(f, oid) ==
    LET t == option_id_to_text(f, oid)
    IN IF t = Raised THEN Raised ELSE IF t # VNone THEN t ELSE oid

decode_field_value(f) ==
    LET v == Get(f, "value")
        ftype == Get(f, "type")
    IN IF ftype = VStr(<<"MULTIPLE_CHOICE">>) /\ v.t = "list"
       THEN LET texts == [i \in DOMAIN v.l |-> ResolveOption(f, v.l[i])]
            IN IF \E i \in DOMAIN texts : texts[i] = Raised
               THEN Raised ELSE VList(texts)
       ELSE IF ftype = VStr(<<"MULTIPLE_CHOICE">>) /\ v.t = "str"
       THEN ResolveOption(f, v)
       ELSE v

(****************************** Answer builder *****************************)

\* A dict key that is an identifier.
K(name) == VStr(<<name>>)

MetaKeys == {"responseId", "submissionId", "respondentId",
             "formId", "formName", "createdAt"}

\* Lines 75-76: data and fields, each defaulted when falsy.
BundleData(bundle) ==
    LET d == Get(bundle, "data") IN IF Truthy(d) THEN d ELSE EmptyDict

DataFields(data) ==
    LET fl == Get(data, "fields") IN IF Truthy(fl) THEN fl ELSE VList(<<>>)

\* Lines 78-87: the answer map holding only "_meta".
InitialAnswers(data) ==
    [k \in {K("_meta")} |-> VDict([m \in MetaKeys |-> Get(data, m)])]

\* FieldStep keeping the entry a key already has (first write wins).
FieldStep_FirstWins(ans, f) ==
    IF f.t # "dict" THEN [ok |-> FALSE]
    ELSE LET key == Get(f, "key")
             value == decode_field_value(f)
             node == VDict([label |-> Get(f, "label"),
                            type |-> Get(f, "type"),
                            value |-> value])
         IN IF ~Truthy(key) THEN [ok |-> TRUE, ans |-> ans]
            ELSE IF value = Raised \/ ~Hashable(key) THEN [ok |-> FALSE]
            ELSE [ok |-> TRUE,
                  ans |-> [k \in DOMAIN ans \cup {key} |->
                              IF k \in DOMAIN ans THEN ans[k] ELSE node]]

\* Lines 90-97, one iteration of the loop: the answer map after field f, or
\* a raise (f is no mapping, its options are malformed, its key is
\* unhashable).
FieldStep(ans, f) ==
    IF f.t # "dict" THEN [ok |-> FALSE]
    ELSE LET key == Get(f, "key")
             value == decode_field_value(f)
             node == VDict([label |-> Get(f, "label"),
                            type |-> Get(f, "type"),
                            value |-> value])
         IN IF ~Truthy(key) THEN [ok |-> TRUE, ans |-> ans]
            ELSE IF value = Raised \/ ~Hashable(key) THEN [ok |-> FALSE]
            ELSE [ok |-> TRUE,
                  ans |-> [k \in DOMAIN ans \cup {key} |->
                              IF k = key THEN node ELSE ans[k]]]

\* Whether lines 75-89 reach the loop body: data is a mapping and fields a
\* list.
FieldsIterable(bundle) ==
    /\ BundleData(bundle).t = "dict"
    /\ DataFields(BundleData(bundle)).t = "list"

RECURSIVE FoldFields(_, _, _)
FoldFields(r, l, i) ==
    IF ~r.ok \/ i > Len(l) THEN r
    ELSE FoldFields(FieldStep(r.ans, l[i]), l, i + 1)

build_answers(bundle) ==
    IF ~FieldsIterable(bundle) THEN [ok |-> FALSE]
    ELSE FoldFields([ok |-> TRUE, ans |-> InitialAnswers(BundleData(bundle))],
                    DataFields(BundleData(bundle)).l, 1)

(***************************** Canonical mapper ****************************)

get_value(ans, key) ==
    IF key \notin DOMAIN ans THEN VNone
    ELSE IF ans[key].t # "dict" THEN VNone
    ELSE Get(ans[key], "value")

\* The fixed table of lines 109-122: attribute |-> source key.
SourceKey ==
    [ role |-> K("question_OzXkVA_7be398b7-7e42-4736-b35e-b9a78d556f22"),
      city_project |-> K("question_V0PDxl"),
      first_name |-> K("question_EXlMAL"),
      last_name |-> K("question_r6OvgL"),
      phone |-> K("question_487zEo"),
      email |-> K("question_jyovg9"),
      price_net_seller |-> K("question_EXlMaL"),
      budget_max |-> K("question_P69kP0"),
      property_type |-> K("question_WNEKXe"),
      surface_m2 |-> K("question_9WZMr4"),
      land_surface_m2 |-> K("question_e6rvoo"),
      bedrooms |-> K("question_WNR1ZQ") ]

Attributes == DOMAIN SourceKey

\* Lines 125-128: None if is_empty(x) else str(x).strip()
TrimText(v) == IF is_empty(v) THEN VNone ELSE VStr(Strip(PyStr(v)))

\* build_canonical reading price_net_seller from the key of first_name, which
\* differs from its own by the case of one letter.
build_canonical_WrongKey(ans) ==
    [ role |-> TrimText(get_value(ans, SourceKey.role)),
      city_project |-> TrimText(get_value(ans, SourceKey.city_project)),
      first_name |-> TrimText(get_value(ans, SourceKey.first_name)),
      last_name |-> TrimText(get_value(ans, SourceKey.last_name)),
      phone |-> norm_phone(get_value(ans, SourceKey.phone)),
      email |-> norm_email(get_value(ans, SourceKey.email)),
      price_net_seller |-> as_int(get_value(ans, SourceKey.first_name)),
      budget_max |-> as_int(get_value(ans, SourceKey.budget_max)),
      property_type |-> get_value(ans, SourceKey.property_type),
      surface_m2 |-> as_int(get_value(ans, SourceKey.surface_m2)),
      land_surface_m2 |-> as_int(get_value(ans, SourceKey.land_surface_m2)),
      bedrooms |-> as_int(get_value(ans, SourceKey.bedrooms)) ]

build_canonical(ans) ==
    [ role |-> TrimText(get_value(ans, SourceKey.role)),
      city_project |-> TrimText(get_value(ans, SourceKey.city_project)),
      first_name |-> TrimText(get_value(ans, SourceKey.first_name)),
      last_name |-> TrimText(get_value(ans, SourceKey.last_name)),
      phone |-> norm_phone(get_value(ans, SourceKey.phone)),
      email |-> norm_email(get_value(ans, SourceKey.email)),
      price_net_seller |-> as_int(get_value(ans, SourceKey.price_net_seller)),
      budget_max |-> as_int(get_value(ans, SourceKey.budget_max)),
      property_type |-> get_value(ans, SourceKey.property_type),
      surface_m2 |-> as_int(get_value(ans, SourceKey.surface_m2)),
      land_surface_m2 |-> as_int(get_value(ans, SourceKey.land_surface_m2)),
      bedrooms |-> as_int(get_value(ans, SourceKey.bedrooms)) ]

(***************************** Empty-field pruner **************************)

\* drop_empty removing only the null attributes.
drop_empty_NullOnly(d) == [k \in {a \in DOMAIN d : d[a] # VNone} |-> d[k]]

drop_empty(d) == [k \in {a \in DOMAIN d : ~is_empty(d[a])} |-> d[k]]

(******************************** Handler **********************************)

\* answers.get("_meta", {})
ResponseMeta(ans) == IF K("_meta") \in DOMAIN ans THEN ans[K("_meta")] ELSE EmptyDict

\* The response of /normalize for a bundle, or a raise.
normalize(bundle) ==
    LET r == build_answers(bundle)
    IN IF ~r.ok THEN [ok |-> FALSE]
       ELSE [ok |-> TRUE,
             canonical |-> drop_empty(build_canonical(r.ans)),
             meta |-> ResponseMeta(r.ans)]

(****************************** Input bundles ******************************)

\* The longest field list of a bundle.
MaxFields == 2

S_email == <<" ", " ", "F", "O", "O", "@", "B", "A", "R", ".", "c", "o", "m", " ">>
S_phone == <<"0", "6", "1", "2", "3", "4", "5", "6", "7", "8">>
S_padded == <<" ", "M", "a", "i", "s", "o", "n", " ">>
S_na == <<" ", "N", "/", "A">>
S_decimal == <<"1", "2", "3", "4", ",", "5">>
S_negative == <<"-", "7", ".", "9">>
S_word == <<"a", "b", "c">>
S_dash == <<"-">>

TEXT == VStr(<<"TEXT">>)
MULTIPLE_CHOICE == VStr(<<"MULTIPLE_CHOICE">>)

YesNo == VList(<< VDict([id |-> VStr(<<"a">>), text |-> VStr(<<"Y", "e", "s">>)]),
                  VDict([id |-> VStr(<<"b">>), text |-> VStr(<<"N", "o">>)]) >>)

TextField(key, value) ==
    VDict([key |-> key, label |-> VStr(<<"Q">>), type |-> TEXT, value |-> value])

\* Fields whose key is in the fixed table, every attribute at least once.
TableFields ==
    { VDict([key |-> SourceKey.role, label |-> VStr(<<"Q">>), type |-> MULTIPLE_CHOICE,
             value |-> VList(<<VStr(<<"a">>), VStr(<<"z">>)>>), options |-> YesNo]),
      TextField(SourceKey.city_project, VStr(S_padded)),
      TextField(SourceKey.first_name, VInt(42)),
      TextField(SourceKey.last_name, VStr(S_na)),
      TextField(SourceKey.phone, VStr(S_phone)),
      TextField(SourceKey.phone, VStr(S_dash)),
      TextField(SourceKey.email, VStr(S_email)),
      TextField(SourceKey.email, VStr(S_word)),
      TextField(SourceKey.price_net_seller, VStr(S_decimal)),
      TextField(SourceKey.budget_max, VStr(S_word)),
      TextField(SourceKey.property_type, VStr(S_padded)),
      TextField(SourceKey.property_type, VStr(S_na)),
      TextField(SourceKey.property_type, VList(<<>>)),
      TextField(SourceKey.surface_m2, VInt(42)),
      TextField(SourceKey.land_surface_m2, VStr(S_negative)),
      TextField(SourceKey.bedrooms, VList(<<VInt(3)>>)) }

\* Fields with no key, a falsy key, a key outside the table, the reserved
\* key; and malformed ones: an unhashable key, options that are no list, an
\* entry that is no mapping.
OtherFields ==
    { VDict([label |-> VStr(<<"Q">>), type |-> TEXT, value |-> VStr(S_phone)]),
      TextField(VNone, VStr(S_email)),
      TextField(VStr(<<>>), VStr(S_phone)),
      TextField(K("question_other"), VStr(S_email)),
      TextField(K("_meta"), VStr(S_word)),
      TextField(VList(<<VInt(1)>>), VStr(S_word)),
      VDict([key |-> K("question_other"), type |-> MULTIPLE_CHOICE,
             value |-> VStr(<<"a">>), options |-> VInt(7)]),
      VInt(5) }

FieldPool == TableFields \cup OtherFields

RECURSIVE SeqsUpTo(_, _)
SeqsUpTo(S, n) ==
    IF n = 0 THEN {<<>>}
    ELSE LET shorter == SeqsUpTo(S, n - 1)
         IN shorter \cup {Append(q, x) : q \in {r \in shorter : Len(r) = n - 1}, x \in S}

FieldLists == SeqsUpTo(FieldPool, MaxFields)

\* Submission metadata, some of the six keys missing.
SomeMeta == [responseId |-> VStr(<<"r", "1">>), formName |-> VStr(<<"F">>),
             createdAt |-> VNone]

WithFields(d, v) == [k \in DOMAIN d \cup {"fields"} |-> IF k = "fields" THEN v ELSE d[k]]

NoKeys == [k \in {} |-> VNone]

\* The raw payloads: a mapping (the request schema guarantees no more) whose
\* data is absent, null, no mapping, or a mapping with or without metadata
\* whose fields are absent, no sequence, or a list of fields.
Bundles ==
    { VDict(NoKeys), VDict([data |-> VNone]), VDict([data |-> VStr(S_word)]),
      VDict([data |-> VList(<<VInt(1)>>)]),
      VDict([data |-> VDict(SomeMeta)]),
      VDict([data |-> VDict(WithFields(SomeMeta, VInt(5)))]),
      VDict([data |-> VDict(WithFields(SomeMeta, VStr(S_word)))]) }
    \cup { VDict([data |-> VDict(WithFields(m, VList(l)))]) :
             m \in {NoKeys, SomeMeta}, l \in FieldLists }

(************************* The handler, step by step ***********************)

Idle == /\ fn = "none" /\ arg = Unset /\ out = Unset /\ out2 = Unset
        /\ field = Unset /\ decoded = Unset

Init ==
    /\ raw \in Bundles
    /\ pc = "start"
    /\ fields = <<>>
    /\ idx = 1
    /\ answers = NoKeys
    /\ canonical = Unset
    /\ response = Unset
    /\ Idle

\* Lines 75-87: data, fields and "_meta"; data.get raises when data is no
\* mapping.
BuildAnswersStart ==
    /\ pc = "start"
    /\ BundleData(raw).t = "dict"
    /\ answers' = InitialAnswers(BundleData(raw))
    /\ pc' = "for"
    /\ UNCHANGED <<raw, fields, idx, canonical, response, fn, arg, out, out2, field, decoded>>

BuildAnswersStartRaises ==
    /\ pc = "start"
    /\ BundleData(raw).t # "dict"
    /\ pc' = "error"
    /\ UNCHANGED <<raw, fields, idx, answers, canonical, response, fn, arg, out, out2, field, decoded>>

\* Line 89: the for statement takes the list to iterate over.
ForFields ==
    /\ pc = "for"
    /\ DataFields(BundleData(raw)).t = "list"
    /\ fields' = DataFields(BundleData(raw)).l
    /\ idx' = 1
    /\ pc' = "fields"
    /\ UNCHANGED <<raw, answers, canonical, response, fn, arg, out, out2, field, decoded>>

\* fields is truthy and no list: an int is not iterable, a string or a dict
\* yields strings, and f.get raises on the first.
ForFieldsRaises ==
    /\ pc = "for"
    /\ DataFields(BundleData(raw)).t # "list"
    /\ pc' = "error"
    /\ UNCHANGED <<raw, fields, idx, answers, canonical, response, fn, arg, out, out2, field, decoded>>

\* Lines 90-97: one iteration.
BuildAnswersField ==
    /\ pc = "fields"
    /\ idx <= Len(fields)
    /\ FieldStep(answers, fields[idx]).ok
    /\ answers' = FieldStep(answers, fields[idx]).ans
    /\ idx' = idx + 1
    /\ UNCHANGED <<raw, pc, fields, canonical, response, fn, arg, out, out2, field, decoded>>

BuildAnswersFieldRaises ==
    /\ pc = "fields"
    /\ idx <= Len(fields)
    /\ ~FieldStep(answers, fields[idx]).ok
    /\ pc' = "error"
    /\ UNCHANGED <<raw, fields, idx, answers, canonical, response, fn, arg, out, out2, field, decoded>>

\* Lines 99 and 158.
BuildCanonical ==
    /\ pc = "fields"
    /\ idx > Len(fields)
    /\ canonical' = build_canonical(answers)
    /\ pc' = "canonical"
    /\ UNCHANGED <<raw, fields, idx, answers, response, fn, arg, out, out2, field, decoded>>

\* Lines 159-162.
Respond ==
    /\ pc = "canonical"
    /\ response' = [canonical |-> drop_empty(canonical), meta |-> ResponseMeta(answers)]
    /\ pc' = "done"
    /\ UNCHANGED <<raw, fields, idx, answers, canonical, fn, arg, out, out2, field, decoded>>

Next ==
    \/ BuildAnswersStart
    \/ BuildAnswersStartRaises
    \/ ForFields
    \/ ForFieldsRaises
    \/ BuildAnswersField
    \/ BuildAnswersFieldRaises
    \/ BuildCanonical
    \/ Respond

Spec == Init /\ [][Next]_vars

\* The stepwise handler computes what normalize computes.
StepsAgree ==
    /\ pc = "done" => normalize(raw) = [ok |-> TRUE, canonical |-> response.canonical,
                                        meta |-> response.meta]
    /\ pc = "error" => ~normalize(raw).ok

(************************* Properties of the handler ***********************)

\* The strings the claims count as empty once trimmed and lowercased.
Sentinels ==
    { <<>>, <<"n", "u", "l", "l">>, <<"n", "o", "n", "e">>, <<"n", "/", "a">>,
      <<"n", "a">>, <<"u", "n", "d", "e", "f", "i", "n", "e", "d">> }

NoOuterSpace(s) == s = <<>> \/ (s[1] # " " /\ s[Len(s)] # " ")

\* The part of s between its first and last non-space characters.
Trimmed(s) ==
    LET solid == {i \in DOMAIN s : s[i] # " "}
    IN IF solid = {} THEN <<>>
       ELSE SubSeq(s, CHOOSE i \in solid : \A j \in solid : i <= j,
                      CHOOSE i \in solid : \A j \in solid : j <= i)

EmptyClassified(v) ==
    \/ v = VNone
    \/ v.t = "str" /\ Lower(Trimmed(v.s)) \in Sentinels
    \/ v.t = "list" /\ Len(v.l) = 0
    \/ v.t = "dict" /\ Cardinality(DOMAIN v.d) = 0

\* C1: the canonical object of a response holds no attribute whose value is
\* null, a string that trims and lowercases to a sentinel, or a zero-length
\* collection; property_type and an emptied phone included.
C1_PruningExhaustive ==
    pc = "done" =>
        \A a \in DOMAIN response.canonical : ~EmptyClassified(response.canonical[a])

\* A response from which an empty pass-through property_type and a phone
\* that cleaned to the empty string were pruned.
C1_Witness ==
    /\ pc = "done"
    /\ canonical.phone = VStr(<<>>)
    /\ canonical.property_type = VStr(S_na)
    /\ "phone" \notin DOMAIN response.canonical
    /\ "property_type" \notin DOMAIN response.canonical

\* C2: for every raw mapping, however malformed inside, the pipeline ends
\* with a response and never in a raised error.
C2_NeverRaises == pc # "error"

\* The key of the i-th field of the list being iterated.
KeyAt(i) == Get(fields[i], "key")

\* The entry the i-th field stands for: its label, type and decoded value.
EntryAt(i) ==
    VDict([label |-> Get(fields[i], "label"), type |-> Get(fields[i], "type"),
           value |-> decode_field_value(fields[i])])

\* The last of the first n fields whose key is k.
LastWithKey(k, n) ==
    CHOOSE i \in 1..n : KeyAt(i) = k /\ \A j \in (i + 1)..n : KeyAt(j) # k

\* C3 (as amended): after any number of fields, the answer map holds "_meta"
\* and one entry per truthy key among the fields processed, and nothing
\* else; the entry of key k is that of the last processed field whose key is
\* k.  A field whose key is absent, null or falsy adds and changes nothing.
C3_LastWriteWins ==
    LET n == idx - 1
        keys == {KeyAt(i) : i \in {j \in 1..n : Truthy(KeyAt(j))}}
    IN pc \in {"fields", "canonical", "done"} =>
          /\ DOMAIN answers = keys \cup {K("_meta")}
          /\ \A k \in keys : answers[k] = EntryAt(LastWithKey(k, n))

\* Two fields with the same key and different entries have been processed.
C3_Witness ==
    /\ pc = "done"
    /\ Len(fields) = 2
    /\ Truthy(KeyAt(1))
    /\ KeyAt(1) = KeyAt(2)
    /\ EntryAt(1) # EntryAt(2)
    /\ answers[KeyAt(1)] = EntryAt(2)

\* C3 as stated: every key that is not absent or null, carried by a
\* processed field, has the entry of the last field carrying it.
C3_Original ==
    LET n == idx - 1
        keys == {KeyAt(i) : i \in {j \in 1..n : KeyAt(j) # VNone}}
    IN pc \in {"fields", "canonical", "done"} =>
          \A k \in keys : k \in DOMAIN answers /\ answers[k] = EntryAt(LastWithKey(k, n))

\* The six metadata values of the bundle's data, null for a missing one.
BundleMeta ==
    LET d == Get(raw, "data")
    IN VDict([m \in MetaKeys |-> IF d.t = "dict" THEN Get(d, m) ELSE VNone])

\* C4: "_meta" in the answer map, and meta in the response, is the six-key
\* metadata of the bundle's data whatever the fields are.
C4_MetaReserved ==
    /\ pc \in {"fields", "canonical", "done"} => answers[K("_meta")] = BundleMeta
    /\ pc = "done" => response.meta = BundleMeta

TextAttributes == {"role", "city_project", "first_name", "last_name", "property_type"}

IntAttributes == {"price_net_seller", "budget_max", "surface_m2", "land_surface_m2", "bedrooms"}

\* C9: every attribute build_canonical returns is null or a normalized
\* value: trimmed strings for the five text attributes, a string of digits
\* and "+" for phone, a trimmed lowercase string with "@" for email,
\* integers for the five numeric attributes.
C9_AlwaysNormalized ==
    pc \in {"canonical", "done"} =>
        /\ \A a \in TextAttributes :
              canonical[a] = VNone \/ (canonical[a].t = "str" /\ NoOuterSpace(canonical[a].s))
        /\ \/ canonical.phone = VNone
           \/ /\ canonical.phone.t = "str"
              /\ \A i \in DOMAIN canonical.phone.s : canonical.phone.s[i] \in Digits \cup {"+"}
        /\ \/ canonical.email = VNone
           \/ /\ canonical.email.t = "str"
              /\ NoOuterSpace(canonical.email.s)
              /\ Lower(canonical.email.s) = canonical.email.s
              /\ \E i \in DOMAIN canonical.email.s : canonical.email.s[i] = "@"
        /\ \A a \in IntAttributes : canonical[a] = VNone \/ canonical[a].t = "int"

TableKeys == {SourceKey[a] : a \in Attributes}

\* The field list of the bundle, once it has been iterated to the end.
HasKey(f, k) == f.t = "dict" /\ Get(f, "key") = k

\* The bundle with the fields whose key is outside the table removed.
RECURSIVE OnlyTableFields(_)
OnlyTableFields(l) ==
    IF l = <<>> THEN <<>>
    ELSE (IF Get(Head(l), "key") \in TableKeys THEN <<Head(l)>> ELSE <<>>)
         \o OnlyTableFields(Tail(l))

AllNullMeta == VDict([m \in MetaKeys |-> VNone])

NoData == Get(raw, "data") = VNone

NoFields == Get(raw, "data").t = "dict" /\ Get(Get(raw, "data"), "fields") = VNone

\* The bundle of the worked example: its only fields are the email and the
\* phone question.
IsExample ==
    /\ Len(fields) = 2
    /\ \E i, j \in 1..2 :
          /\ i # j
          /\ HasKey(fields[i], SourceKey.email) /\ Get(fields[i], "value") = VStr(S_email)
          /\ HasKey(fields[j], SourceKey.phone) /\ Get(fields[j], "value") = VStr(S_phone)

ExampleCanonical ==
    [ email |-> VStr(<<"f", "o", "o", "@", "b", "a", "r", ".", "c", "o", "m">>),
      phone |-> VStr(<<"+", "3", "3", "6", "1", "2", "3", "4", "5", "6", "7", "8">>) ]

\* The parts of C10 that hold as stated: an attribute is present only if a
\* field carries its source key; the worked example; fields outside the
\* table change nothing.
C10_Common ==
    /\ \A a \in DOMAIN response.canonical :
          \E i \in DOMAIN fields : HasKey(fields[i], SourceKey[a])
    /\ IsExample => response.canonical = ExampleCanonical
    /\ response.canonical =
          drop_empty(build_canonical(
              FoldFields([ok |-> TRUE, ans |-> InitialAnswers(BundleData(raw))],
                         OnlyTableFields(fields), 1).ans))

\* C10 (as amended): as stated, except that a bundle with data but no
\* fields answers with the metadata of its data (null for the missing
\* keys); only a bundle with no data answers with six nulls.
C10_EndToEnd ==
    pc = "done" =>
        /\ C10_Common
        /\ NoData => response.canonical = NoKeys /\ response.meta = AllNullMeta
        /\ NoFields => response.canonical = NoKeys /\ response.meta = BundleMeta

\* The response to the worked example.
C10_Witness == pc = "done" /\ IsExample /\ response.canonical = ExampleCanonical

\* C10 as stated: a bundle with no data or no fields answers with an empty
\* canonical object and six null metadata values.
C10_Original ==
    pc = "done" =>
        /\ C10_Common
        /\ (NoData \/ NoFields) =>
              response.canonical = NoKeys /\ response.meta = AllNullMeta

(*************************** The scalar normalizers ************************)

\* The longest run of characters before the digits of a phone input.
MaxPrefix == 2

\* The longest run of characters after the digits of a phone input.
MaxSuffix == 1

\* The most digits in the middle of a phone input.
MaxRun == 10

\* The longest text given to norm_email and as_int.
MaxText == 3

PhoneChars == {"0", "+", " ", "-"}

\* The first k digits of 6123456789012...
Run(k) == [i \in 1..k |-> IF i = 1 THEN "6" ELSE DigitChar((i - 1) % 10)]

S_intl == <<"0", "0", "3", "3", "6", "1", "2", "3", "4", "5", "6", "7", "8">>
S_plus33 == <<"+", "3", "3", "6", "1", "2", "3", "4", "5", "6", "7", "8">>

OtherValues == {VNone, VInt(0), VInt(42), VInt(0 - 7), VList(<<>>), VList(<<VStr(<<"a">>), VInt(1)>>), EmptyDict}

PhoneInputs ==
    { VStr(pre \o Run(k) \o suf) :
        pre \in SeqsUpTo(PhoneChars, MaxPrefix), k \in 0..MaxRun,
        suf \in SeqsUpTo(PhoneChars, MaxSuffix) }
    \cup {VStr(S_phone), VStr(S_intl), VStr(S_plus33), VStr(S_na)} \cup OtherValues

EmailChars == {"A", "n", "@", " ", "/"}

EmailInputs ==
    {VStr(x) : x \in SeqsUpTo(EmailChars, MaxText)} \cup {VStr(S_email)} \cup OtherValues

IntChars == {"1", "0", ",", ".", "-", " ", "a"}

IntInputs ==
    {VStr(x) : x \in SeqsUpTo(IntChars, MaxText)}
    \cup {VStr(S_decimal), VStr(S_na)} \cup OtherValues

Inputs(f) ==
    CASE f = "norm_phone" -> PhoneInputs
      [] f = "norm_email" -> EmailInputs
      [] f = "as_int" -> IntInputs

Apply(f, x) ==
    CASE f = "norm_phone" -> norm_phone(x)
      [] f = "norm_email" -> norm_email(x)
      [] f = "as_int" -> as_int(x)

HandlerIdle ==
    /\ raw = EmptyDict /\ pc = "idle" /\ fields = <<>> /\ idx = 1
    /\ answers = NoKeys /\ canonical = Unset /\ response = Unset

InitScalar ==
    /\ fn \in {"norm_phone", "norm_email", "as_int"}
    /\ arg \in Inputs(fn)
    /\ out = Unset
    /\ out2 = Unset
    /\ field = Unset
    /\ decoded = Unset
    /\ HandlerIdle

\* The normalizer is applied to the input.
Normalize ==
    /\ out = Unset
    /\ out' = Apply(fn, arg)
    /\ UNCHANGED <<raw, pc, fields, idx, answers, canonical, response, fn, arg, out2, field, decoded>>

\* The normalizer is applied to its own result.
Renormalize ==
    /\ out # Unset
    /\ out2 = Unset
    /\ out2' = Apply(fn, out)
    /\ UNCHANGED <<raw, pc, fields, idx, answers, canonical, response, fn, arg, out, field, decoded>>

NextScalar == Normalize \/ Renormalize

SpecScalar == InitScalar /\ [][NextScalar]_vars

\* The characters of s that are in keep, in order.
Only(s, keep) ==
    LET hits == {i \in DOMAIN s : s[i] \in keep}
        nth[n \in 1..Cardinality(hits)] ==
            CHOOSE i \in hits : Cardinality({j \in hits : j < i}) = n - 1
    IN [n \in 1..Cardinality(hits) |-> s[nth[n]]]

\* C6: norm_phone gives null on an empty-classified input; otherwise, with c
\* the input stringified, trimmed and cleaned and c' = c with a leading "00"
\* rewritten to "+", it gives "+33" and the digits of c' after the leading
\* zero when c' starts with "0" and has exactly ten digits, and c' otherwise.
C6_PhoneRule ==
    (fn = "norm_phone" /\ out # Unset) =>
        LET c == Only(Trimmed(PyStr(arg)), Digits \cup {"+"})
            c2 == IF Len(c) >= 2 /\ c[1] = "0" /\ c[2] = "0"
                  THEN <<"+">> \o [i \in 1..(Len(c) - 2) |-> c[i + 2]]
                  ELSE c
            d == Only(c2, Digits)
        IN /\ EmptyClassified(arg) => out = VNone
           /\ ~EmptyClassified(arg) =>
                 out = IF c2 # <<>> /\ c2[1] = "0" /\ Len(d) = 10
                       THEN VStr(<<"+", "3", "3">> \o [i \in 1..9 |-> d[i + 1]])
                       ELSE VStr(c2)
           /\ arg \in {VStr(S_phone), VStr(S_intl), VStr(S_plus33)} => out = VStr(S_plus33)

\* The international form with a leading 00 has been normalized.
C6_Witness == fn = "norm_phone" /\ arg = VStr(S_intl) /\ out = VStr(S_plus33)

\* C7: the string norm_phone returns for a non-empty input holds digits and
\* at most one "+", in the first position.
C7_PlusOnlyLeading ==
    (fn = "norm_phone" /\ out # Unset /\ out # VNone) =>
        \A i \in DOMAIN out.s : out.s[i] \in Digits \/ (i = 1 /\ out.s[i] = "+")

\* C8: every value a normalizer returns is a fixed point of that normalizer.
C8_Idempotent == out2 # Unset => out2 = out

\* The part of C8 that is about norm_email and as_int.
C8_EmailIntIdempotent == (out2 # Unset /\ fn # "norm_phone") => out2 = out

(****************************** The field decoder **************************)

\* The most options a field declares.
MaxOptions == 2

\* The most identifiers in a multiple-choice value.
MaxIds == 2

S_yes == <<"Y", "e", "s">>
S_no == <<"N", "o">>

\* Declared options: mappings with an id and a text, either of which may be
\* null or missing; two options may declare the same id.
OptionPool ==
    { VDict([id |-> VStr(<<"a">>), text |-> VStr(S_yes)]),
      VDict([id |-> VStr(<<"b">>), text |-> VStr(S_no)]),
      VDict([id |-> VStr(<<"a">>), text |-> VStr(S_no)]),
      VDict([id |-> VStr(<<"a">>), text |-> VNone]),
      VDict([id |-> VStr(<<"b">>)]),
      VDict([text |-> VStr(S_no)]) }

Identifiers == {VStr(<<"a">>), VStr(<<"b">>), VStr(<<"z">>)}

DecodeValues ==
    {VNone, VInt(5)} \cup Identifiers
    \cup {VList(l) : l \in SeqsUpTo(Identifiers \cup {VNone}, MaxIds)}

DecodeFields ==
    { VDict([key |-> K("question_other"), type |-> ty, value |-> v]) :
        ty \in {MULTIPLE_CHOICE, TEXT}, v \in DecodeValues }
    \cup { VDict([key |-> K("question_other"), type |-> ty, value |-> v, options |-> VList(o)]) :
             ty \in {MULTIPLE_CHOICE, TEXT}, v \in DecodeValues,
             o \in SeqsUpTo(OptionPool, MaxOptions) }

InitDecode ==
    /\ field \in DecodeFields
    /\ decoded = Unset
    /\ fn = "none" /\ arg = Unset /\ out = Unset /\ out2 = Unset
    /\ HandlerIdle

Decode ==
    /\ decoded = Unset
    /\ decoded' = decode_field_value(field)
    /\ UNCHANGED <<raw, pc, fields, idx, answers, canonical, response, fn, arg, out, out2, field>>

NextDecode == Decode

SpecDecode == InitDecode /\ [][NextDecode]_vars

\* The options a field declares.
Declared(f) == IF Get(f, "options") = VNone THEN <<>> ELSE Get(f, "options").l

\* The positions of the declared options whose id is oid.
Matches(f, oid) == {i \in DOMAIN Declared(f) : Get(Declared(f)[i], "id") = oid}

\* What the identifier oid resolves to: the text of the first declared
\* option with that id, or oid when there is none or its text is null.
Resolved(f, oid) ==
    IF Matches(f, oid) = {} THEN oid
    ELSE LET first == CHOOSE i \in Matches(f, oid) : \A j \in Matches(f, oid) : i <= j
             text == Get(Declared(f)[first], "text")
         IN IF text = VNone THEN oid ELSE text

\* What C5 says oid resolves to: the text of a declared option with that
\* id, or oid when no declared option has that id.
AsStated(f, oid, r) ==
    IF Matches(f, oid) = {} THEN r = oid
    ELSE \E i \in Matches(f, oid) : r = Get(Declared(f)[i], "text")

\* C5 (as amended): on a MULTIPLE_CHOICE field a list of identifiers decodes
\* to the list, of the same length and order, of what each resolves to: the
\* text of the first declared option with that id, or the identifier itself
\* when no option has that id or that option's text is null; a single string
\* resolves the same way; null gives null.  A field of any other type
\* decodes to its raw value.
C5_Decode ==
    decoded # Unset =>
        LET v == Get(field, "value")
        IN IF Get(field, "type") # MULTIPLE_CHOICE THEN decoded = v
           ELSE /\ v.t = "list" =>
                     /\ decoded.t = "list"
                     /\ Len(decoded.l) = Len(v.l)
                     /\ \A i \in DOMAIN v.l : decoded.l[i] = Resolved(field, v.l[i])
                /\ v.t = "str" => decoded = Resolved(field, v)
                /\ v = VNone => decoded = VNone

\* A list with a known and an unknown identifier has been decoded.
C5_Witness ==
    /\ Get(field, "type") = MULTIPLE_CHOICE
    /\ Get(field, "value") = VList(<<VStr(<<"a">>), VStr(<<"z">>)>>)
    /\ Matches(field, VStr(<<"a">>)) # {}
    /\ decoded = VList(<<VStr(S_yes), VStr(<<"z">>)>>)

\* C5 as stated.
C5_Original ==
    decoded # Unset =>
        LET v == Get(field, "value")
        IN IF Get(field, "type") # MULTIPLE_CHOICE THEN decoded = v
           ELSE /\ v.t = "list" =>
                     /\ decoded.t = "list"
                     /\ Len(decoded.l) = Len(v.l)
                     /\ \A i \in DOMAIN v.l : AsStated(field, v.l[i], decoded.l[i])
                /\ v.t = "str" => AsStated(field, v, decoded)
                /\ v = VNone => decoded = VNone

====
